---- MODULE Spec2Model ----
(***************************************************************************)
(* gohome: a read-only dashboard that lists the ingresses of a Kubernetes  *)
(* cluster next to the bookmarks of a ConfigMap.                           *)
(*                                                                         *)
(* Go strings are modelled as sequences of byte values, so that comparison *)
(* (sort order), splitting, trimming and title-casing are computed the way *)
(* the strings package computes them.  A nil pointer or nil error is Nil.  *)
(***************************************************************************)
EXTENDS Integers, Sequences, FiniteSets, TLC

VARIABLES
    pc,            \* main: position of the process
    exitCode,      \* main: exit status, meaningful once pc is "exited"
    k8sClient,     \* main/Server: TRUE when NewK8sClient returned a client
    hpc,           \* handleHome: position of the request being served
    cmReads,       \* GetConfig: the responses of its ConfigMap Get calls
    bookmarks,     \* GetConfig: local bookmarks, the result of LoadBookmarks
    config,        \* handleHome: local config (*Config), Nil before GetConfig
    configErr,     \* handleHome: err of GetConfig
    items,         \* GetVisibleIngresses: ingresses.Items of the List response
    ingresses,     \* handleHome: local ingresses
    ingErr,        \* handleHome: err of GetVisibleIngresses
    renderErr,     \* handleHome: err of ExecuteTemplate
    data,          \* handleHome: PageData handed to the template, else Nil
    status,        \* response: 200, 500, or 0 while nothing was answered
    calls,         \* cluster API calls issued by the request, in order
    entryKey,      \* parseBookmarkEntry: argument key
    entryValue,    \* parseBookmarkEntry: argument value
    entryOut,      \* parseBookmarkEntry: returned Bookmark, Nil before the call
    ingressIn,     \* extractIngressInfo: argument ingress
    infoOut,       \* extractIngressInfo: returned IngressInfo, Nil before
    shownOut,      \* GetVisibleIngresses: visibleIngresses after its loop, Nil before
    parseIn,       \* parseBookmarks: configMap.Data of its argument
    parseOut       \* parseBookmarks: what its calls on parseIn returned, in order

mainVars == <<pc, exitCode, k8sClient>>
homeVars ==
    <<hpc, cmReads, bookmarks, config, configErr, items, ingresses, ingErr, renderErr,
      data, status, calls>>
entryVars == <<entryKey, entryValue, entryOut>>
infoVars == <<ingressIn, infoOut, shownOut>>
parseVars == <<parseIn, parseOut>>
vars == <<mainVars, homeVars, entryVars, infoVars, parseVars>>

\* a nil pointer
Nil == [nil |-> TRUE]

(***************************************************************************)
(* Bounds of the model.                                                    *)
(***************************************************************************)
\* longest list of ingresses a List response carries
MaxIngresses == 2
\* longest ConfigMap value handed to parseBookmarkEntry
MaxValueLen == 4
\* most TLS blocks of an ingress handed to extractIngressInfo
MaxTLS == 2
\* most calls of parseBookmarks on one ConfigMap
MaxParseCalls == 2
\* most rules of an ingress handed to extractIngressInfo
MaxRules == 2
\* longest key, after "bookmark-", handed to parseBookmarkEntry
MaxKeyLen == 3

(***************************************************************************)
(* String literals of the source, as byte sequences.                       *)
(***************************************************************************)
\* "|", the separator of strings.Split in parseBookmarkEntry
Pipe == 124
\* "-", replaced in the key by parseBookmarkEntry
Dash == 45
\* " ", what "-" is replaced with
Space == 32
\* "gohome.stringer.sh/hide"
HideAnnotation ==
    <<103, 111, 104, 111, 109, 101, 46, 115, 116, 114, 105, 110, 103, 101, 114, 46, 115, 104, 47, 104, 105, 100, 101>>
\* "true"
StrTrue ==
    <<116, 114, 117, 101>>
\* "false"
StrFalse ==
    <<102, 97, 108, 115, 101>>
\* "bookmark-"
BookmarkPrefix ==
    <<98, 111, 111, 107, 109, 97, 114, 107, 45>>
\* "General"
StrGeneral ==
    <<71, 101, 110, 101, 114, 97, 108>>
\* "Go Home"
StrGoHome ==
    <<71, 111, 32, 72, 111, 109, 101>>
\* "title"
StrTitleKey ==
    <<116, 105, 116, 108, 101>>
\* "http"
StrHttp ==
    <<104, 116, 116, 112>>
\* "https"
StrHttps ==
    <<104, 116, 116, 112, 115>>
\* "://"
StrSchemeSep ==
    <<58, 47, 47>>

getDefaultBookmarks ==
    <<
      \* Hacker News | https://news.ycombinator.com | News
      [Name |-> <<72, 97, 99, 107, 101, 114, 32, 78, 101, 119, 115>>,
       URL |-> <<104, 116, 116, 112, 115, 58, 47, 47, 110, 101, 119, 115, 46, 121, 99, 111, 109, 98, 105, 110, 97, 116, 111, 114, 46, 99, 111, 109>>,
       Category |-> <<78, 101, 119, 115>>],
      \* Bracket City | https://www.theatlantic.com/games/bracket-city/ | Games
      [Name |-> <<66, 114, 97, 99, 107, 101, 116, 32, 67, 105, 116, 121>>,
       URL |-> <<104, 116, 116, 112, 115, 58, 47, 47, 119, 119, 119, 46, 116, 104, 101, 97, 116, 108, 97, 110, 116, 105, 99, 46, 99, 111, 109, 47, 103, 97, 109, 101, 115, 47, 98, 114, 97, 99, 107, 101, 116, 45, 99, 105, 116, 121, 47>>,
       Category |-> <<71, 97, 109, 101, 115>>]
    >>
getDemoIngresses ==
    <<
      \* grafana / monitoring / grafana.example.com
      [Name |-> <<103, 114, 97, 102, 97, 110, 97>>,
       Namespace |-> <<109, 111, 110, 105, 116, 111, 114, 105, 110, 103>>,
       Host |-> <<103, 114, 97, 102, 97, 110, 97, 46, 101, 120, 97, 109, 112, 108, 101, 46, 99, 111, 109>>,
       Path |-> <<47>>,
       URL |-> <<104, 116, 116, 112, 115, 58, 47, 47, 103, 114, 97, 102, 97, 110, 97, 46, 101, 120, 97, 109, 112, 108, 101, 46, 99, 111, 109, 47>>],
      \* home-assistant / home-automation / hass.example.com
      [Name |-> <<104, 111, 109, 101, 45, 97, 115, 115, 105, 115, 116, 97, 110, 116>>,
       Namespace |-> <<104, 111, 109, 101, 45, 97, 117, 116, 111, 109, 97, 116, 105, 111, 110>>,
       Host |-> <<104, 97, 115, 115, 46, 101, 120, 97, 109, 112, 108, 101, 46, 99, 111, 109>>,
       Path |-> <<47>>,
       URL |-> <<104, 116, 116, 112, 115, 58, 47, 47, 104, 97, 115, 115, 46, 101, 120, 97, 109, 112, 108, 101, 46, 99, 111, 109, 47>>],
      \* jellyfin / media / media.example.com
      [Name |-> <<106, 101, 108, 108, 121, 102, 105, 110>>,
       Namespace |-> <<109, 101, 100, 105, 97>>,
       Host |-> <<109, 101, 100, 105, 97, 46, 101, 120, 97, 109, 112, 108, 101, 46, 99, 111, 109>>,
       Path |-> <<47>>,
       URL |-> <<104, 116, 116, 112, 115, 58, 47, 47, 109, 101, 100, 105, 97, 46, 101, 120, 97, 109, 112, 108, 101, 46, 99, 111, 109, 47>>],
      \* nextcloud / productivity / cloud.example.com
      [Name |-> <<110, 101, 120, 116, 99, 108, 111, 117, 100>>,
       Namespace |-> <<112, 114, 111, 100, 117, 99, 116, 105, 118, 105, 116, 121>>,
       Host |-> <<99, 108, 111, 117, 100, 46, 101, 120, 97, 109, 112, 108, 101, 46, 99, 111, 109>>,
       Path |-> <<47>>,
       URL |-> <<104, 116, 116, 112, 115, 58, 47, 47, 99, 108, 111, 117, 100, 46, 101, 120, 97, 109, 112, 108, 101, 46, 99, 111, 109, 47>>],
      \* portainer / management / portainer.example.com
      [Name |-> <<112, 111, 114, 116, 97, 105, 110, 101, 114>>,
       Namespace |-> <<109, 97, 110, 97, 103, 101, 109, 101, 110, 116>>,
       Host |-> <<112, 111, 114, 116, 97, 105, 110, 101, 114, 46, 101, 120, 97, 109, 112, 108, 101, 46, 99, 111, 109>>,
       Path |-> <<47>>,
       URL |-> <<104, 116, 116, 112, 115, 58, 47, 47, 112, 111, 114, 116, 97, 105, 110, 101, 114, 46, 101, 120, 97, 109, 112, 108, 101, 46, 99, 111, 109, 47>>]
    >>

(***************************************************************************)
(* The string operations the code uses.                                    *)
(***************************************************************************)
\* a < b on Go strings: bytewise lexicographic
StrLess(a, b) ==
    \E i \in 1..Len(b) :
        /\ i <= Len(a) + 1
        /\ \A j \in 1..(i - 1) : a[j] = b[j]
        /\ IF i = Len(a) + 1 THEN TRUE ELSE a[i] < b[i]

\* strings.HasPrefix
HasPrefix(s, prefix) ==
    /\ Len(s) >= Len(prefix)
    /\ SubSeq(s, 1, Len(prefix)) = prefix

\* strings.TrimPrefix
TrimPrefix(s, prefix) ==
    IF HasPrefix(s, prefix) THEN SubSeq(s, Len(prefix) + 1, Len(s)) ELSE s

\* strings.ReplaceAll(s, old, new) for one-byte old and new
ReplaceAll(s, old, new) ==
    [i \in 1..Len(s) |-> IF s[i] = old THEN new ELSE s[i]]

\* strings.isSeparator on ASCII: letters, digits and underscore are not
isSeparator(r) ==
    ~ \/ (r >= 48 /\ r <= 57)
      \/ (r >= 65 /\ r <= 90)
      \/ (r >= 97 /\ r <= 122)
      \/ r = 95

\* unicode.ToTitle on ASCII
ToTitle(r) ==
    IF r >= 97 /\ r <= 122 THEN r - 32 ELSE r

\* Title, capitalising the first byte of the string only
TitleFirstOnly(s) ==
    [i \in 1..Len(s) |-> IF i = 1 THEN ToTitle(s[i]) ELSE s[i]]

\* strings.Title: the letter that begins each word is mapped to title case
Title(s) ==
    [i \in 1..Len(s) |->
        IF isSeparator(IF i = 1 THEN 32 ELSE s[i - 1]) THEN ToTitle(s[i]) ELSE s[i]]

\* index of the first sep in s, 0 when there is none
IndexByte(s, sep) ==
    IF \E i \in 1..Len(s) : s[i] = sep
    THEN CHOOSE i \in 1..Len(s) : s[i] = sep /\ \A j \in 1..(i - 1) : s[j] # sep
    ELSE 0

RECURSIVE Split(_, _)
\* strings.Split(s, sep) for a one-byte sep: every piece between separators
Split(s, sep) ==
    LET i == IndexByte(s, sep)
    IN  IF i = 0 THEN <<s>>
        ELSE <<SubSeq(s, 1, i - 1)>> \o Split(SubSeq(s, i + 1, Len(s)), sep)

\* unicode.IsSpace on ASCII
IsSpace(r) ==
    (r >= 9 /\ r <= 13) \/ r = 32

\* strings.TrimSpace
TrimSpace(s) ==
    LET keep == {i \in 1..Len(s) : ~IsSpace(s[i])}
    IN  IF keep = {} THEN <<>>
        ELSE SubSeq(s, CHOOSE i \in keep : \A j \in keep : i <= j,
                       CHOOSE i \in keep : \A j \in keep : i >= j)

(***************************************************************************)
(* sort.Slice is not stable and parseBookmarks ranges over a Go map, whose *)
(* iteration order is unspecified: the result of a sort is any arrangement *)
(* of the elements in which no element is less than an earlier one.        *)
(***************************************************************************)
Perms(n) ==
    {p \in [1..n -> 1..n] : \A i, j \in 1..n : i # j => p[i] # p[j]}

\* sort.Slice(s, less), less[i, j] telling whether s[i] sorts before s[j]
SortSlice(s, less) ==
    {[i \in 1..Len(s) |-> s[p[i]]] :
        p \in {q \in Perms(Len(s)) :
                 \A i, j \in 1..Len(s) : i < j => ~less[q[j], q[i]]}}

\* some enumeration of a finite set, standing for a map's iteration order
RECURSIVE SetToSeq(_)
SetToSeq(S) ==
    IF S = {} THEN <<>>
    ELSE LET x == CHOOSE y \in S : TRUE IN <<x>> \o SetToSeq(S \ {x})

(***************************************************************************)
(* internal/config.go                                                      *)
(***************************************************************************)
\* type Bookmark
Bookmark(name, url, category) ==
    [Name |-> name, URL |-> url, Category |-> category]

\* parseBookmarkEntry parses a single bookmark entry
parseBookmarkEntry(key, value) ==
    LET name == Title(ReplaceAll(TrimPrefix(key, BookmarkPrefix), Dash, Space))
        parts == Split(value, Pipe)
        url == IF Len(parts) >= 1 THEN TrimSpace(parts[1]) ELSE <<>>
        category == IF Len(parts) >= 2 THEN TrimSpace(parts[2]) ELSE <<>>
    IN  Bookmark(name, url, IF category = <<>> THEN StrGeneral ELSE category)

\* the less function parseBookmarks hands to sort.Slice
bookmarkLess(x, y) ==
    IF x.Category = y.Category
    THEN StrLess(x.Name, y.Name)
    ELSE StrLess(x.Category, y.Category)

\* parseBookmarks, keeping the entries whose URL is empty
parseBookmarksKeepEmpty(cmData) ==
    LET kept == {k \in DOMAIN cmData : HasPrefix(k, BookmarkPrefix)}
        order == SetToSeq(kept)
        appended == [i \in 1..Len(order) |->
                        parseBookmarkEntry(order[i], cmData[order[i]])]
    IN  SortSlice(appended,
                  [i, j \in 1..Len(appended) |-> bookmarkLess(appended[i], appended[j])])

\* parseBookmarks: the results it can return for ConfigMap data cmData
parseBookmarks(cmData) ==
    LET kept == {k \in DOMAIN cmData :
                    /\ HasPrefix(k, BookmarkPrefix)
                    /\ parseBookmarkEntry(k, cmData[k]).URL # <<>>}
        order == SetToSeq(kept)
        appended == [i \in 1..Len(order) |->
                        parseBookmarkEntry(order[i], cmData[order[i]])]
    IN  SortSlice(appended,
                  [i, j \in 1..Len(appended) |-> bookmarkLess(appended[i], appended[j])])

\* a response of ConfigMaps(namespace).Get: an error, or the ConfigMap
GetError == [err |-> TRUE]
GetOK(cmData) == [err |-> FALSE, Data |-> cmData]

\* LoadBookmarks, returning no bookmarks when the Get fails
LoadBookmarksEmptyOnError(clientset, resp) ==
    IF ~clientset THEN {[bookmarks |-> getDefaultBookmarks, err |-> FALSE]}
    ELSE IF resp.err THEN {[bookmarks |-> <<>>, err |-> FALSE]}
    ELSE {[bookmarks |-> b, err |-> FALSE] : b \in parseBookmarks(resp.Data)}

\* LoadBookmarks, handing the error of the Get to its caller
LoadBookmarksPropagate(clientset, resp) ==
    IF ~clientset THEN {[bookmarks |-> getDefaultBookmarks, err |-> FALSE]}
    ELSE IF resp.err THEN {[bookmarks |-> <<>>, err |-> TRUE]}
    ELSE {[bookmarks |-> b, err |-> FALSE] : b \in parseBookmarks(resp.Data)}

\* LoadBookmarks: the (bookmarks, err) pairs it can return
LoadBookmarks(clientset, resp) ==
    IF ~clientset THEN {[bookmarks |-> getDefaultBookmarks, err |-> FALSE]}
    ELSE IF resp.err THEN {[bookmarks |-> getDefaultBookmarks, err |-> FALSE]}
    ELSE {[bookmarks |-> b, err |-> FALSE] : b \in parseBookmarks(resp.Data)}

\* configTitle, taking the value of the key "title" even when it is empty
configTitleAnyValue(clientset, resp) ==
    IF clientset /\ ~resp.err /\ StrTitleKey \in DOMAIN resp.Data
    THEN resp.Data[StrTitleKey]
    ELSE StrGoHome

\* GetConfig, lines 120-134: the title after the second Get
configTitle(clientset, resp) ==
    IF clientset /\ ~resp.err
                 /\ StrTitleKey \in DOMAIN resp.Data
                 /\ resp.Data[StrTitleKey] # <<>>
    THEN resp.Data[StrTitleKey]
    ELSE StrGoHome

\* type Config
Config(bms, title) ==
    [Bookmarks |-> bms, Title |-> title]

(***************************************************************************)
(* internal/k8s.go                                                         *)
(***************************************************************************)
\* type IngressInfo
IngressInfo(name, namespace, host, path, url) ==
    [Name |-> name, Namespace |-> namespace, Host |-> host, Path |-> path, URL |-> url]

\* ingress.Annotations[key]: the zero value "" for a missing key
Annotation(ingress, key) ==
    IF key \in DOMAIN ingress.Annotations THEN ingress.Annotations[key] ELSE <<>>

\* protocolOf, leaving the search at the first TLS block
protocolOfFirstBlock(ingress, host) ==
    IF /\ Len(ingress.TLS) > 0
       /\ \E h \in 1..Len(ingress.TLS[1].Hosts) : ingress.TLS[1].Hosts[h] = host
    THEN StrHttps
    ELSE StrHttp

\* extractIngressInfo, lines 152-163: the protocol of the URL
protocolOf(ingress, host) ==
    IF \E t \in 1..Len(ingress.TLS) :
           \E h \in 1..Len(ingress.TLS[t].Hosts) : ingress.TLS[t].Hosts[h] = host
    THEN StrHttps
    ELSE StrHttp

\* extractIngressInfo, taking the first rule that has a host
extractIngressInfoFirstHost(ingress) ==
    LET hosted == {i \in 1..Len(ingress.Rules) : ingress.Rules[i].Host # <<>>}
    IN  IF hosted # {}
        THEN LET rule == ingress.Rules[CHOOSE i \in hosted : \A j \in hosted : i <= j]
                 host == rule.Host
                 path == IF rule.HTTP # Nil /\ Len(rule.HTTP.Paths) > 0
                         THEN rule.HTTP.Paths[1]
                         ELSE <<>>
             IN  IngressInfo(ingress.Name, ingress.Namespace, host, path,
                             protocolOf(ingress, host) \o StrSchemeSep \o host \o path)
        ELSE IngressInfo(ingress.Name, ingress.Namespace, <<>>, <<>>, <<>>)

\* extractIngressInfo converts a Kubernetes ingress to IngressInfo
extractIngressInfo(ingress) ==
    IF Len(ingress.Rules) > 0
    THEN LET rule == ingress.Rules[1]
             host == rule.Host
             path == IF rule.HTTP # Nil /\ Len(rule.HTTP.Paths) > 0
                     THEN rule.HTTP.Paths[1]
                     ELSE <<>>
             url == IF host # <<>>
                    THEN protocolOf(ingress, host) \o StrSchemeSep \o host \o path
                    ELSE <<>>
         IN  IngressInfo(ingress.Name, ingress.Namespace, host, path, url)
    ELSE IngressInfo(ingress.Name, ingress.Namespace, <<>>, <<>>, <<>>)

\* visibleLoop, hiding every ingress that carries the annotation at all
RECURSIVE visibleLoopAnyValue(_)
visibleLoopAnyValue(list) ==
    IF list = <<>> THEN <<>>
    ELSE LET ingress == Head(list)
             info == extractIngressInfo(ingress)
         IN  IF HideAnnotation \in DOMAIN ingress.Annotations
             THEN visibleLoopAnyValue(Tail(list))
             ELSE IF info.URL # <<>>
                  THEN <<info>> \o visibleLoopAnyValue(Tail(list))
                  ELSE visibleLoopAnyValue(Tail(list))

\* GetVisibleIngresses, lines 113-125: the loop that fills visibleIngresses
RECURSIVE visibleLoop(_)
visibleLoop(list) ==
    IF list = <<>> THEN <<>>
    ELSE LET ingress == Head(list)
             info == extractIngressInfo(ingress)
         IN  IF Annotation(ingress, HideAnnotation) = StrTrue
             THEN visibleLoop(Tail(list))
             ELSE IF info.URL # <<>>
                  THEN <<info>> \o visibleLoop(Tail(list))
                  ELSE visibleLoop(Tail(list))

\* ingressLess on the lower-cased names
ToLower(s) ==
    [i \in 1..Len(s) |-> IF s[i] >= 65 /\ s[i] <= 90 THEN s[i] + 32 ELSE s[i]]

ingressLessFold(x, y) ==
    StrLess(ToLower(x.Name), ToLower(y.Name))

\* the less function GetVisibleIngresses hands to sort.Slice
ingressLess(x, y) ==
    StrLess(x.Name, y.Name)

\* a response of Ingresses("").List: an error, or the list's Items
ListError == [err |-> TRUE]
ListOK(list) == [err |-> FALSE, Items |-> list]

\* GetVisibleIngresses: the (list, err) pairs it can return
GetVisibleIngresses(client, resp) ==
    IF ~client THEN {[list |-> getDemoIngresses, err |-> FALSE]}
    ELSE IF resp.err THEN {[list |-> <<>>, err |-> TRUE]}
    ELSE LET visibleIngresses == visibleLoop(resp.Items)
             n == Len(visibleIngresses)
         IN  {[list |-> s, err |-> FALSE] :
                 s \in SortSlice(visibleIngresses,
                                 [i, j \in 1..n |->
                                     ingressLess(visibleIngresses[i], visibleIngresses[j])])}

(***************************************************************************)
(* What the cluster can answer: the inputs of the model.                   *)
(***************************************************************************)
\* keys of the ConfigMap: "title", "bookmark-a", "bookmark-b"
ConfigKeys ==
    {StrTitleKey, BookmarkPrefix \o <<97>>, BookmarkPrefix \o <<98>>}

\* values of the ConfigMap: "", "T", "u|N"
ConfigValues ==
    {<<>>, <<84>>, <<117, 124, 78>>}

\* ConfigMap.Data: any of the keys, each with any of the values
ConfigMapData ==
    UNION {[K -> ConfigValues] : K \in SUBSET ConfigKeys}

GetResponses ==
    {GetError} \cup {GetOK(d) : d \in ConfigMapData}

\* spec.rules[i]
Rule(host, http) ==
    [Host |-> host, HTTP |-> http]

\* spec.tls[i]
TLSBlock(hosts) ==
    [Hosts |-> hosts]

\* networkingv1.Ingress, the fields the code reads
Ingress(name, namespace, annotations, rules, tls) ==
    [Name |-> name, Namespace |-> namespace, Annotations |-> annotations,
     Rules |-> rules, TLS |-> tls]

\* the sequences over S of length at most n
SeqUpTo(S, n) ==
    UNION {[1..m -> S] : m \in 0..n}

\* names "a", "B"; namespaces "m", "n"
IngressNames == {<<97>>, <<66>>}
IngressNamespaces == {<<109>>, <<110>>}

\* annotations: none, hide "true", hide "false"
IngressAnnotations ==
    {<<>>} \cup {[k \in {HideAnnotation} |-> v] : v \in {StrTrue, StrFalse}}

\* rules and TLS of a listed ingress: no rule; a first rule without host and a
\* second with one; host "h" with path "/" under TLS
IngressShapes ==
    { [Rules |-> <<>>, TLS |-> <<>>],
      [Rules |-> <<Rule(<<>>, Nil), Rule(<<104>>, Nil)>>, TLS |-> <<>>],
      [Rules |-> <<Rule(<<104>>, [Paths |-> <<(<<47>>)>>])>>,
       TLS |-> <<TLSBlock(<<(<<104>>)>>)>>] }

ClusterIngresses ==
    {Ingress(n, ns, a, s.Rules, s.TLS) :
        n \in IngressNames, ns \in IngressNamespaces,
        a \in IngressAnnotations, s \in IngressShapes}

\* Items of a List response: (namespace, name) identifies an object
IngressLists ==
    {l \in SeqUpTo(ClusterIngresses, MaxIngresses) :
        \A i, j \in 1..Len(l) :
            i # j => <<l[i].Namespace, l[i].Name>> # <<l[j].Namespace, l[j].Name>>}

ListResponses ==
    {ListError} \cup {ListOK(l) : l \in IngressLists}

(***************************************************************************)
(* cmd/main.go: main                                                       *)
(***************************************************************************)
\* flag.Parse and the -version and -help branches, which exit 0
MainFlags ==
    /\ pc = "flags"
    /\ \E showVersion, showHelp \in BOOLEAN :
          IF showVersion \/ showHelp
          THEN pc' = "exited" /\ exitCode' = 0
          ELSE pc' = "newK8sClient" /\ exitCode' = exitCode
    /\ UNCHANGED <<k8sClient, homeVars, entryVars, infoVars, parseVars>>

\* MainNewK8sClient, giving up when no client can be created
MainNewK8sClientFatal ==
    /\ pc = "newK8sClient"
    /\ \E created \in BOOLEAN :
          IF created
          THEN k8sClient' = TRUE /\ pc' = "newServer" /\ exitCode' = exitCode
          ELSE k8sClient' = FALSE /\ pc' = "exited" /\ exitCode' = 1
    /\ UNCHANGED <<homeVars, entryVars, infoVars, parseVars>>

\* internal.NewK8sClient(): on an error main goes on with k8sClient = nil
MainNewK8sClient ==
    /\ pc = "newK8sClient"
    /\ \E created \in BOOLEAN : k8sClient' = created
    /\ pc' = "newServer"
    /\ UNCHANGED <<exitCode, homeVars, entryVars, infoVars, parseVars>>

\* internal.NewServer: template.ParseGlob; log.Fatalf on its error
MainNewServer ==
    /\ pc = "newServer"
    /\ \E parsed \in BOOLEAN :
          IF parsed
          THEN pc' = "start" /\ exitCode' = exitCode
          ELSE pc' = "exited" /\ exitCode' = 1
    /\ UNCHANGED <<k8sClient, homeVars, entryVars, infoVars, parseVars>>

\* server.Start: http.ListenAndServe; log.Fatalf when it returns an error
MainStart ==
    /\ pc = "start"
    /\ \E listening \in BOOLEAN :
          IF listening
          THEN pc' = "serving" /\ exitCode' = exitCode
          ELSE pc' = "exited" /\ exitCode' = 1
    /\ UNCHANGED <<k8sClient, homeVars, entryVars, infoVars, parseVars>>

(***************************************************************************)
(* internal/server.go: handleHome, one step per blocking call.  Requests   *)
(* share no mutable state, so one request at a time is modelled.           *)
(***************************************************************************)
\* PageData with DemoMode set when a client exists
PageDataInverted(cfg, ings, client) ==
    [Config |-> cfg, Ingresses |-> ings, DemoMode |-> client]

\* type PageData, as handleHome fills it
PageData(cfg, ings, client) ==
    [Config |-> cfg, Ingresses |-> ings, DemoMode |-> ~client]

\* the calls of the request so far, with one more when a client exists
called(client, log, call) ==
    IF client THEN Append(log, call) ELSE log

\* GetConfig, first half: LoadBookmarks, with its ConfigMap Get
HomeLoadBookmarks ==
    /\ pc = "serving"
    /\ hpc = "idle"
    /\ \E resp \in GetResponses :
          /\ cmReads' = called(k8sClient, <<>>, resp)
          /\ \E r \in LoadBookmarks(k8sClient, resp) :
                IF r.err
                THEN /\ bookmarks' = <<>>
                     /\ configErr' = TRUE
                     /\ config' = Nil
                     /\ hpc' = "config"
                ELSE /\ bookmarks' = r.bookmarks
                     /\ configErr' = FALSE
                     /\ config' = Nil
                     /\ hpc' = "title"
    /\ calls' = called(k8sClient, <<>>, "GetConfigMap")
    /\ items' = <<>>
    /\ ingresses' = <<>>
    /\ ingErr' = FALSE
    /\ renderErr' = FALSE
    /\ data' = Nil
    /\ status' = 0
    /\ UNCHANGED <<mainVars, entryVars, infoVars, parseVars>>

\* GetConfig, second half: the Get for the title, and the returned Config
HomeLoadTitle ==
    /\ pc = "serving"
    /\ hpc = "title"
    /\ \E resp \in GetResponses :
          /\ cmReads' = called(k8sClient, cmReads, resp)
          /\ config' = Config(bookmarks, configTitle(k8sClient, resp))
    /\ calls' = called(k8sClient, calls, "GetConfigMap")
    /\ bookmarks' = <<>>
    /\ hpc' = "config"
    /\ UNCHANGED <<mainVars, configErr, items, ingresses, ingErr, renderErr, data, status,
                   entryVars, infoVars, parseVars>>

\* handleHome, lines 65-73: GetConfig has returned; the fallback on its error
HomeConfig ==
    /\ pc = "serving"
    /\ hpc = "config"
    /\ config' = IF configErr THEN Config(<<>>, StrGoHome) ELSE config
    /\ cmReads' = <<>>
    /\ hpc' = "ingresses"
    /\ UNCHANGED <<mainVars, bookmarks, configErr, items, ingresses, ingErr, renderErr,
                   data, status, calls, entryVars, infoVars, parseVars>>

\* HomeIngresses, rendering the page of renderError when the List fails
HomeIngressesErrorPage ==
    /\ pc = "serving"
    /\ hpc = "ingresses"
    /\ \E resp \in ListResponses :
          /\ items' = IF k8sClient /\ ~resp.err THEN resp.Items ELSE <<>>
          /\ \E r \in GetVisibleIngresses(k8sClient, resp) :
                /\ ingErr' = r.err
                /\ ingresses' = IF r.err THEN <<>> ELSE r.list
    /\ data' = IF ingErr'
               THEN PageData(Config(<<>>, StrGoHome), <<>>, k8sClient)
               ELSE PageData(config, ingresses', k8sClient)
    /\ calls' = called(k8sClient, calls, "ListIngresses")
    /\ hpc' = "render"
    /\ UNCHANGED <<mainVars, cmReads, bookmarks, config, configErr, renderErr, status,
                   entryVars, infoVars, parseVars>>

\* GetVisibleIngresses with its List, the fallback, and the page data
HomeIngresses ==
    /\ pc = "serving"
    /\ hpc = "ingresses"
    /\ \E resp \in ListResponses :
          /\ items' = IF k8sClient /\ ~resp.err THEN resp.Items ELSE <<>>
          /\ \E r \in GetVisibleIngresses(k8sClient, resp) :
                /\ ingErr' = r.err
                /\ ingresses' = IF r.err THEN <<>> ELSE r.list
    /\ data' = PageData(config, ingresses', k8sClient)
    /\ calls' = called(k8sClient, calls, "ListIngresses")
    /\ hpc' = "render"
    /\ UNCHANGED <<mainVars, cmReads, bookmarks, config, configErr, renderErr, status,
                   entryVars, infoVars, parseVars>>

\* renderStatus without the http.Error call
renderStatusLogged(executed) ==
    200

\* handleHome, lines 91-96: the status of the response
renderStatus(executed) ==
    IF executed THEN 200 ELSE 500

\* templates.ExecuteTemplate, and http.Error with 500 when it fails
HomeRender ==
    /\ pc = "serving"
    /\ hpc = "render"
    /\ \E executed \in BOOLEAN :
          /\ renderErr' = ~executed
          /\ status' = renderStatus(executed)
    /\ items' = <<>>
    /\ hpc' = "idle"
    /\ UNCHANGED <<mainVars, cmReads, bookmarks, config, configErr, ingresses, ingErr,
                   data, calls, entryVars, infoVars, parseVars>>

InitMain ==
    /\ pc = "flags"
    /\ exitCode = 0
    /\ k8sClient = FALSE

InitHome ==
    /\ hpc = "idle"
    /\ cmReads = <<>>
    /\ bookmarks = <<>>
    /\ config = Nil
    /\ configErr = FALSE
    /\ items = <<>>
    /\ ingresses = <<>>
    /\ ingErr = FALSE
    /\ renderErr = FALSE
    /\ data = Nil
    /\ status = 0
    /\ calls = <<>>

InitEntryIdle ==
    /\ entryKey = <<>>
    /\ entryValue = <<>>
    /\ entryOut = Nil

InitInfoIdle ==
    /\ ingressIn = Nil
    /\ infoOut = Nil
    /\ shownOut = Nil

InitParseIdle ==
    /\ parseIn = <<>>
    /\ parseOut = <<>>

Init ==
    InitMain /\ InitHome /\ InitEntryIdle /\ InitInfoIdle /\ InitParseIdle

Next ==
    \/ MainFlags
    \/ MainNewK8sClient
    \/ MainNewServer
    \/ MainStart
    \/ HomeLoadBookmarks
    \/ HomeLoadTitle
    \/ HomeConfig
    \/ HomeIngresses
    \/ HomeRender

Spec == Init /\ [][Next]_vars

(***************************************************************************)
(* parseBookmarkEntry on its own: any key and value of the bounded sets.   *)
(***************************************************************************)
\* bytes of the values: "u", "N", " ", "|"
ValueBytes == {117, 78, Space, Pipe}

\* "https://a.com|News" and "https://a.com", the values of the README's form
ReadmeValues ==
    { <<104, 116, 116, 112, 115, 58, 47, 47, 97, 46, 99, 111, 109, 124, 78, 101, 119, 115>>,
      <<104, 116, 116, 112, 115, 58, 47, 47, 97, 46, 99, 111, 109>> }

EntryValues ==
    SeqUpTo(ValueBytes, MaxValueLen) \cup ReadmeValues

\* "bookmark-a", "bookmark-hacker-news"
EntryKeys ==
    { BookmarkPrefix \o <<97>>,
      BookmarkPrefix \o <<104, 97, 99, 107, 101, 114, 45, 110, 101, 119, 115>> }

InitEntry ==
    /\ InitMain /\ InitHome /\ InitInfoIdle /\ InitParseIdle
    /\ entryKey \in EntryKeys
    /\ entryValue \in EntryValues
    /\ entryOut = Nil

\* bm.parseBookmarkEntry(name, value)
CallParseBookmarkEntry ==
    /\ entryOut = Nil
    /\ entryOut' = parseBookmarkEntry(entryKey, entryValue)
    /\ UNCHANGED <<mainVars, homeVars, entryKey, entryValue, infoVars, parseVars>>

NextEntry ==
    CallParseBookmarkEntry

SpecEntry == InitEntry /\ [][NextEntry]_vars

(***************************************************************************)
(* parseBookmarkEntry on the keys: any key of the bounded set.             *)
(***************************************************************************)
\* bytes of the keys: "a", "B", "-", "."
KeyBytes == {97, 66, Dash, 46}

\* "bookmark-" and up to MaxKeyLen bytes, "bookmark-hacker-news", and
\* "bookmark-bookmark-a"
NameKeys ==
    {BookmarkPrefix \o r : r \in SeqUpTo(KeyBytes, MaxKeyLen)}
        \cup EntryKeys \cup {BookmarkPrefix \o BookmarkPrefix \o <<97>>}

InitName ==
    /\ InitMain /\ InitHome /\ InitInfoIdle /\ InitParseIdle
    /\ entryKey \in NameKeys
    /\ entryValue \in ReadmeValues
    /\ entryOut = Nil

SpecName == InitName /\ [][NextEntry]_vars

(***************************************************************************)
(* parseBookmarks on its own: called again and again on one ConfigMap.     *)
(***************************************************************************)
\* "bookmark-a", "bookmark-A", and without the prefix "title", "xbookmark-a"
KeyLowerA == BookmarkPrefix \o <<97>>
KeyUpperA == BookmarkPrefix \o <<65>>
ParseKeys ==
    {KeyLowerA, KeyUpperA, StrTitleKey, <<120>> \o KeyLowerA}

\* "", " ", "|N", "u", "w", "v|N"
ParseValues ==
    {<<>>, <<Space>>, <<Pipe, 78>>, <<117>>, <<119>>, <<118, Pipe, 78>>}

ParseData ==
    UNION {[K -> ParseValues] : K \in SUBSET ParseKeys}

InitParse ==
    /\ InitMain /\ InitHome /\ InitEntryIdle /\ InitInfoIdle
    /\ parseIn \in ParseData
    /\ parseOut = <<>>

\* bm.parseBookmarks(configMap)
CallParseBookmarks ==
    /\ Len(parseOut) < MaxParseCalls
    /\ \E r \in parseBookmarks(parseIn) : parseOut' = Append(parseOut, r)
    /\ UNCHANGED <<mainVars, homeVars, entryVars, infoVars, parseIn>>

NextParse ==
    CallParseBookmarks

SpecParse == InitParse /\ [][NextParse]_vars

(***************************************************************************)
(* extractIngressInfo on its own: any ingress of the bounded sets.         *)
(***************************************************************************)
\* hosts "a" and "b"; paths "/x", "/y"
HostA == <<97>>
HostB == <<98>>

InfoRules ==
    { Rule(<<>>, Nil),
      Rule(HostA, Nil),
      Rule(HostA, [Paths |-> <<>>]),
      Rule(HostA, [Paths |-> <<(<<47, 120>>)>>]),
      Rule(HostB, [Paths |-> <<(<<47, 121>>), (<<47, 120>>)>>]) }

InfoTLSBlocks ==
    {TLSBlock(h) : h \in {<<>>, <<HostA>>, <<HostB>>, <<HostB, HostA>>}}

InfoIngresses ==
    {Ingress(<<97>>, <<110>>, <<>>, r, t) :
        r \in SeqUpTo(InfoRules, MaxRules), t \in SeqUpTo(InfoTLSBlocks, MaxTLS)}

InitInfo ==
    /\ InitMain /\ InitHome /\ InitEntryIdle /\ InitParseIdle
    /\ ingressIn \in InfoIngresses
    /\ infoOut = Nil
    /\ shownOut = Nil

\* k.extractIngressInfo(&ingress)
CallExtractIngressInfo ==
    /\ infoOut = Nil
    /\ infoOut' = extractIngressInfo(ingressIn)
    /\ UNCHANGED <<mainVars, homeVars, entryVars, ingressIn, shownOut, parseVars>>

\* GetVisibleIngresses, lines 113-125, over a List of the one ingress
CallVisibleLoop ==
    /\ infoOut # Nil
    /\ shownOut = Nil
    /\ shownOut' = [list |-> visibleLoop(<<ingressIn>>)]
    /\ UNCHANGED <<mainVars, homeVars, entryVars, ingressIn, infoOut, parseVars>>

NextInfo ==
    \/ CallExtractIngressInfo
    \/ CallVisibleLoop

SpecInfo == InitInfo /\ [][NextInfo]_vars

(***************************************************************************)
(* The claims.                                                             *)
(***************************************************************************)
\* the ingress carries the hide annotation with the value "true"
Hidden(ingress) ==
    /\ HideAnnotation \in DOMAIN ingress.Annotations
    /\ ingress.Annotations[HideAnnotation] = StrTrue

\* the ingress has a first rule with a non-empty host
Resolvable(ingress) ==
    /\ Len(ingress.Rules) > 0
    /\ ingress.Rules[1].Host # <<>>

\* how often (namespace, name) of the ingress occurs in the returned list
Occurrences(ingress) ==
    Cardinality({i \in 1..Len(ingresses) :
                    /\ ingresses[i].Namespace = ingress.Namespace
                    /\ ingresses[i].Name = ingress.Name})

\* GetVisibleIngresses has returned a list built from a List response
ListedFromCluster ==
    hpc = "render" /\ k8sClient /\ ~ingErr

\* C1: after a successful List, no ingress annotated hide = "true" is in the
\* result, and every other ingress with a resolvable host is in it exactly
\* once, identified by (namespace, name).
C1_HiddenAbsentOthersOnce ==
    ListedFromCluster =>
        \A j \in 1..Len(items) :
            /\ Hidden(items[j]) => Occurrences(items[j]) = 0
            /\ (~Hidden(items[j]) /\ Resolvable(items[j])) => Occurrences(items[j]) = 1

\* a List of one hidden and one shown ingress, both with a host
C1_Witness ==
    /\ ListedFromCluster
    /\ Len(items) = 2
    /\ Hidden(items[1]) /\ Resolvable(items[1])
    /\ ~Hidden(items[2]) /\ Resolvable(items[2])
    /\ Annotation(items[2], HideAnnotation) = StrFalse
    /\ Len(ingresses) = 1

\* s is ascending by (category, name), pair by adjacent pair
BookmarksSorted(s) ==
    \A i \in 1..(Len(s) - 1) :
        \/ StrLess(s[i].Category, s[i + 1].Category)
        \/ /\ s[i].Category = s[i + 1].Category
           /\ ~StrLess(s[i + 1].Name, s[i].Name)

\* C2: the bookmarks of every page view model are sorted ascending by
\* (category, name), whichever path produced them.
C2_BookmarksAlwaysSorted ==
    data # Nil => BookmarksSorted(data.Config.Bookmarks)

\* C3: every list GetVisibleIngresses returns without error, the demo list
\* included, is ascending by name under bytewise comparison.
C3_IngressesSortedByName ==
    (hpc = "render" /\ ~ingErr) =>
        \A i, j \in 1..Len(ingresses) :
            i < j => ~StrLess(ingresses[j].Name, ingresses[i].Name)

\* a cluster list with "B" before "a"
C3_Witness ==
    /\ ListedFromCluster
    /\ Len(ingresses) = 2
    /\ ingresses[1].Name = <<66>>
    /\ ingresses[2].Name = <<97>>

AllReadsFailed ==
    \A i \in 1..Len(cmReads) : cmReads[i].err

\* C5: without a client, or with the ConfigMap unreadable during the request,
\* GetConfig returns no error and a Config of the built-in default bookmarks
\* and the title "Go Home".
C5_DefaultsWhenUnreadable ==
    (hpc = "config" /\ (~k8sClient \/ AllReadsFailed)) =>
        /\ ~configErr
        /\ config = Config(getDefaultBookmarks, StrGoHome)

\* a client exists and both Gets of GetConfig failed
C5_Witness ==
    /\ hpc = "config"
    /\ k8sClient
    /\ Len(cmReads) = 2
    /\ AllReadsFailed
    /\ config = Config(getDefaultBookmarks, StrGoHome)

\* C6: parseBookmarkEntry splits on the first "|" only: the URL is the trimmed
\* text before it, the category the trimmed text of everything after it, and
\* the category is "General" without a "|" or with an empty category.
C6_SplitsOnFirstPipeOnly ==
    entryOut # Nil =>
        LET i == IndexByte(entryValue, Pipe)
            before == IF i = 0 THEN entryValue ELSE SubSeq(entryValue, 1, i - 1)
            after == IF i = 0 THEN <<>> ELSE SubSeq(entryValue, i + 1, Len(entryValue))
        IN  /\ entryOut.URL = TrimSpace(before)
            /\ entryOut.Category =
                  IF TrimSpace(after) = <<>> THEN StrGeneral ELSE TrimSpace(after)

\* some TLS block of the ingress lists the host of its first rule
TLSCoversFirstHost(ingress) ==
    \E t \in 1..Len(ingress.TLS) :
        ingress.Rules[1].Host \in {ingress.TLS[t].Hosts[h] : h \in 1..Len(ingress.TLS[t].Hosts)}

\* C7: the URL of an ingress starts with "https://" when some TLS block lists
\* the host of the first rule, and with "http://" otherwise.
C7_HttpsIffTLSHost ==
    (infoOut # Nil /\ infoOut.URL # <<>>) =>
        IF TLSCoversFirstHost(ingressIn)
        THEN HasPrefix(infoOut.URL, StrHttps \o StrSchemeSep)
        ELSE HasPrefix(infoOut.URL, StrHttp \o StrSchemeSep)

\* https from the second TLS block, the first naming another host only
C7_Witness ==
    /\ infoOut # Nil
    /\ Len(ingressIn.TLS) = 2
    /\ ingressIn.TLS[1].Hosts = <<HostB>>
    /\ ingressIn.TLS[2].Hosts = <<HostB, HostA>>
    /\ Len(ingressIn.Rules) > 0
    /\ ingressIn.Rules[1].Host = HostA
    /\ HasPrefix(infoOut.URL, StrHttps \o StrSchemeSep)

\* C8: without a client every page has DemoMode set, the demo ingresses, the
\* default bookmarks and the title "Go Home", and the request calls the
\* cluster never; with a client DemoMode is not set.
C8_DemoModeWithoutClient ==
    /\ ~k8sClient => calls = <<>>
    /\ (data # Nil /\ ~k8sClient) =>
          /\ data.DemoMode
          /\ data.Ingresses = getDemoIngresses
          /\ data.Config = Config(getDefaultBookmarks, StrGoHome)
    /\ (data # Nil /\ k8sClient) => ~data.DemoMode

\* a page rendered without a client
C8_Witness ==
    /\ pc = "serving"
    /\ ~k8sClient
    /\ status = 200
    /\ data # Nil
    /\ data.DemoMode

\* C9: one request issues at most two calls to the cluster API, and none of
\* them twice.
C9_AtMostTwoCallsNoneRepeated ==
    /\ Len(calls) <= 2
    /\ \A i, j \in 1..Len(calls) : i # j => calls[i] # calls[j]

\* C10: the process exits non-zero only out of NewServer or Start; neither a
\* failed NewK8sClient nor anything a request does ends it.
C10_ExitsOnlyOnSetupFailure ==
    [][/\ (pc' = "exited" /\ pc # "exited" /\ exitCode' # 0) => pc \in {"newServer", "start"}
       /\ pc = "newK8sClient" => pc' # "exited"
       /\ pc = "serving" => pc' = "serving"]_vars

\* still serving, without a client, after a request whose template failed
C10_Witness ==
    /\ pc = "serving"
    /\ ~k8sClient
    /\ hpc = "idle"
    /\ status = 500
    /\ renderErr

\* the key without its first "bookmark-", every "-" made a space
KeyRemainder(key) ==
    LET r == SubSeq(key, Len(BookmarkPrefix) + 1, Len(key))
    IN  [i \in 1..Len(r) |-> IF r[i] = Dash THEN Space ELSE r[i]]

\* b in upper case when it is a lower-case letter
UpperCased(b) ==
    IF b >= 97 /\ b <= 122 THEN b - 32 ELSE b

\* "Hacker News"
StrHackerNews ==
    <<72, 97, 99, 107, 101, 114, 32, 78, 101, 119, 115>>

\* C11 as stated: the name is the remainder of the key with the first letter
\* of each space-separated word in upper case, the rest unchanged.
C11_SpaceSeparatedWords ==
    entryOut # Nil =>
        LET r == KeyRemainder(entryKey)
        IN  entryOut.Name =
               [i \in 1..Len(r) |->
                   IF i = 1 \/ r[i - 1] = Space THEN UpperCased(r[i]) ELSE r[i]]

\* b is a letter, a digit or an underscore
WordByte(b) ==
    \/ (b >= 48 /\ b <= 57)
    \/ (b >= 65 /\ b <= 90)
    \/ (b >= 97 /\ b <= 122)
    \/ b = 95

\* C11, amended: the name is the remainder of the key with every letter in
\* upper case that begins it or follows a byte other than a letter, a digit
\* or an underscore (a space, and also a "."), the rest unchanged;
\* "bookmark-hacker-news" yields "Hacker News".
C11_TitleCasedName ==
    entryOut # Nil =>
        LET r == KeyRemainder(entryKey)
        IN  /\ entryOut.Name =
                  [i \in 1..Len(r) |->
                      IF i = 1 \/ ~WordByte(r[i - 1]) THEN UpperCased(r[i]) ELSE r[i]]
            /\ entryKey = BookmarkPrefix \o <<104, 97, 99, 107, 101, 114, 45, 110, 101, 119, 115>>
                  => entryOut.Name = StrHackerNews

\* "bookmark-hacker-news" parsed to "Hacker News"
C11_Witness ==
    /\ entryOut # Nil
    /\ entryKey = BookmarkPrefix \o <<104, 97, 99, 107, 101, 114, 45, 110, 101, 119, 115>>
    /\ entryOut.Name = StrHackerNews

\* the response of the Get that GetConfig issues for the title
TitleRead ==
    cmReads[2]

\* the ConfigMap was readable for the title and carries a non-empty "title"
TitleSupplied ==
    /\ k8sClient
    /\ ~TitleRead.err
    /\ StrTitleKey \in DOMAIN TitleRead.Data
    /\ TitleRead.Data[StrTitleKey] # <<>>

\* C12: the title GetConfig returns is the value of the key "title" when the
\* ConfigMap is readable and the key is present and not empty, and "Go Home"
\* in every other case.
C12_TitleFromConfigMapOrDefault ==
    (hpc = "config" /\ ~configErr) =>
        config.Title = IF TitleSupplied THEN TitleRead.Data[StrTitleKey] ELSE StrGoHome

\* GetConfig returned the title "T" of the ConfigMap
C12_Witness ==
    /\ hpc = "config"
    /\ TitleSupplied
    /\ TitleRead.Data[StrTitleKey] = <<84>>
    /\ config.Title = <<84>>

\* C13: a failed List makes GetVisibleIngresses return an error and no list;
\* handleHome then renders no ingresses and the config GetConfig returned,
\* untouched; and whatever the ConfigMap reads did, the ingresses rendered are
\* those of the List response.
C13_FailuresAreIndependent ==
    /\ [](\A r \in GetVisibleIngresses(TRUE, ListError) : r.err /\ r.list = <<>>)
    /\ []((hpc = "render" /\ ingErr) =>
             (ingresses = <<>> /\ data.Ingresses = <<>>))
    /\ [](hpc = "render" => data.Config = config)
    /\ [](ListedFromCluster =>
             [list |-> data.Ingresses, err |-> FALSE]
                 \in GetVisibleIngresses(TRUE, ListOK(items)))
    /\ [][(hpc \in {"ingresses", "render"}) => (config' = config)]_vars

\* the List failed and the page carries two bookmarks parsed from the ConfigMap
C13_Witness ==
    /\ hpc = "render"
    /\ k8sClient
    /\ ingErr
    /\ data.Ingresses = <<>>
    /\ Len(data.Config.Bookmarks) = 2
    /\ data.Config.Bookmarks # getDefaultBookmarks

\* the first HTTP path of the first rule, empty when it has none
FirstPath(ingress) ==
    LET http == ingress.Rules[1].HTTP
    IN  IF http = Nil THEN <<>>
        ELSE IF Len(http.Paths) = 0 THEN <<>> ELSE http.Paths[1]

\* C14: host and path of a non-hidden ingress are those of its first rule,
\* whatever the later rules; its url is protocol "://" host path; and an
\* ingress without rules, or whose first rule has no host, is left out of the
\* list even when a later rule has a host.
C14_FirstRuleOnly ==
    /\ infoOut # Nil =>
          /\ infoOut.Name = ingressIn.Name
          /\ infoOut.Namespace = ingressIn.Namespace
          /\ Len(ingressIn.Rules) > 0 =>
                /\ infoOut.Host = ingressIn.Rules[1].Host
                /\ infoOut.Path = FirstPath(ingressIn)
          /\ Resolvable(ingressIn) =>
                \E protocol \in {StrHttp, StrHttps} :
                    infoOut.URL = protocol \o StrSchemeSep \o ingressIn.Rules[1].Host
                                      \o FirstPath(ingressIn)
    /\ shownOut # Nil =>
          shownOut.list = IF Resolvable(ingressIn) THEN <<infoOut>> ELSE <<>>

\* left out: the first rule has no host, the second has host "a"
C14_Witness ==
    /\ shownOut # Nil
    /\ shownOut.list = <<>>
    /\ Len(ingressIn.Rules) = 2
    /\ ingressIn.Rules[1].Host = <<>>
    /\ ingressIn.Rules[2].Host = HostA

\* the trimmed text of value before its first "|"
URLText(value) ==
    LET i == IndexByte(value, Pipe)
    IN  TrimSpace(IF i = 0 THEN value ELSE SubSeq(value, 1, i - 1))

\* the keys of parseIn that start with "bookmark-" and carry a URL
BookmarkKeys ==
    {k \in DOMAIN parseIn : HasPrefix(k, BookmarkPrefix) /\ URLText(parseIn[k]) # <<>>}

\* C15: parseBookmarks returns one bookmark for each key that starts with
\* "bookmark-" and whose URL is not empty, and nothing else.
C15_OneBookmarkPerPrefixedKey ==
    \A c \in 1..Len(parseOut) :
        \E f \in [1..Len(parseOut[c]) -> BookmarkKeys] :
            /\ \A k \in BookmarkKeys : Cardinality({i \in DOMAIN f : f[i] = k}) = 1
            /\ \A i \in DOMAIN f : parseOut[c][i] = parseBookmarkEntry(f[i], parseIn[f[i]])

\* all four keys present, "bookmark-a" with a blank URL, "bookmark-A" with "u":
\* one bookmark
C15_Witness ==
    /\ Len(parseOut) >= 1
    /\ DOMAIN parseIn = ParseKeys
    /\ parseIn[KeyLowerA] = <<Space>>
    /\ parseIn[KeyUpperA] = <<117>>
    /\ parseIn[StrTitleKey] = <<119>>
    /\ Len(parseOut[1]) = 1
    /\ parseOut[1][1].URL = <<117>>

\* C17: for a fixed ConfigMap, parseBookmarks returns the same sequence on
\* every call.
C17_SameSequenceEveryCall ==
    \A c, d \in 1..Len(parseOut) : parseOut[c] = parseOut[d]

\* the response of the Get that LoadBookmarks issues
BookmarksRead ==
    cmReads[1]

\* C16: title and bookmarks of one Config come from the same observation of
\* the ConfigMap: never the default bookmarks with a title of the ConfigMap,
\* nor parsed bookmarks with the default title while the ConfigMap read for
\* them carries a non-empty title.
C16_TitleAndBookmarksAgree ==
    (hpc = "config" /\ k8sClient /\ ~configErr) =>
        /\ ~(BookmarksRead.err /\ config.Title # StrGoHome)
        /\ ~ /\ ~BookmarksRead.err
             /\ StrTitleKey \in DOMAIN BookmarksRead.Data
             /\ BookmarksRead.Data[StrTitleKey] # <<>>
             /\ config.Title = StrGoHome

\* C18: LoadBookmarks and GetConfig return no error, so handleHome never takes
\* its fallback to a Config without bookmarks: the bookmarks of the Config are
\* the built-in defaults after a failure and the parse result otherwise, and
\* handleHome renders them as returned.
C18_ConfigNeverFails ==
    /\ [](~configErr)
    /\ [](hpc = "config" =>
            /\ config # Nil
            /\ IF ~k8sClient \/ BookmarksRead.err
               THEN config.Bookmarks = getDefaultBookmarks /\ config.Bookmarks # <<>>
               ELSE config.Bookmarks \in parseBookmarks(BookmarksRead.Data))
    /\ [](hpc = "render" => data.Config = config)
    /\ [][(hpc \in {"config", "ingresses", "render"}) => (config' = config)]_vars

\* a page rendered with the default bookmarks after the ConfigMap read failed
C18_Witness ==
    /\ k8sClient
    /\ status = 200
    /\ ~configErr
    /\ data.Config.Bookmarks = getDefaultBookmarks

====
